---- MODULE Spec2Model ----
(***************************************************************************)
(* Vocalis client audio pipeline: AudioService                             *)
(* (frontend/src/services/audio.ts).                                       *)
(*                                                                         *)
(* The model has two halves that share audioState:                         *)
(*   - playback: playAudioChunk / playNextChunk / onended / safety timer / *)
(*     stopPlayback, with decodeAudioData calls in flight;                 *)
(*   - capture: startRecording / stopRecording / handleAudioProcess /      *)
(*     sendAudioChunk and the three protected-state setters.               *)
(* Audio segments and captured frames are identified by the order in which *)
(* they were handed to the service.  Energies are in units of 1/1000, times*)
(* in milliseconds.                                                        *)
(*                                                                         *)
(* Two further components are modelled beside it:                          *)
(*   - the refresh throttle of the SessionManager component;               *)
(*   - the server-side Turn Orchestrator of one connection, modelled from  *)
(*     the specification of its state machine.                             *)
(***************************************************************************)
EXTENDS Integers, Sequences, FiniteSets

----------------------------------------------------------------------------
\* Bounds of the exploration
MaxItems == 3          \* playAudioChunk calls explored by SpecPlayback
MaxFrames == 4         \* handleAudioProcess calls explored by SpecCapture
MaxSaveResults == 3    \* save_session_result messages explored by SpecSessions
MaxTicks == 4          \* clock advances explored by SpecSessions
MaxUtterances == 2     \* utterances received by the orchestrator in SpecTurns
MaxSegments == 2       \* audio segments a synthesis call produces
MaxInterrupts == 2     \* interrupt messages received by the orchestrator
MaxBargeFrames == 2    \* handleAudioProcess calls explored by SpecBargeIn
MaxBargeItems == 2     \* playAudioChunk calls explored by SpecBargeIn
MaxAppends == 52       \* turns appended to the history in SpecHistory
MaxSaves == 2          \* saves of the preferences modal in SpecPrefs

----------------------------------------------------------------------------
\* Program constants
voiceThreshold == 10           \* 0.01, in units of 1/1000
silenceTimeout == 1000
minRecordingLength == 1000

DEFAULT_CONFIG == [sampleRate |-> 44100, channelCount |-> 1, bufferSize |-> 4096]

\* new AudioService(config) takes a Partial<AudioConfig>.  The capture side is
\* explored with the largest frame a ScriptProcessorNode accepts, so that a
\* segment of minRecordingLength is a few frames long.
LargeFrameConfig == [DEFAULT_CONFIG EXCEPT !.bufferSize = 16384]

\* Energies a frame may have: not above the threshold (silence is such a frame),
\* and above it.
Energies == {voiceThreshold, 2 * voiceThreshold}

INACTIVE == "inactive"
RECORDING == "recording"
PLAYING == "playing"
SPEAKING == "speaking"
INTERRUPTED == "interrupted"
AudioState == {INACTIVE, RECORDING, PLAYING, SPEAKING, INTERRUPTED}

PLAYBACK_START == "playback_start"
PLAYBACK_STOP == "playback_stop"
PLAYBACK_END == "playback_end"
AUDIO_ERROR == "audio_error"
RECORDING_START == "recording_start"
RECORDING_STOP == "recording_stop"
RECORDING_DATA == "recording_data"

Null == 0
Items == 1..MaxItems

\* SessionManager: the refresh throttle of handleSaveSessionResult
RefreshWindow == 2000
SessionIds == {1, 2}

VARIABLES
  \* AudioService fields
  config,              \* this.config
  audioState,
  audioQueue,          \* decoded segments waiting to be played
  isPlaying,
  isSpeaking,
  currentSource,       \* the segment whose source node is current, or Null
  playbackTimeoutId,   \* id of the last safety timer set, or Null
  audioBuffer,         \* captured frames of the current voice segment
  isVoiceDetected,
  lastVoiceTime,
  isProcessing,
  isGreeting,
  isVisionProcessing,
  scriptProcessor,     \* TRUE when this.scriptProcessor is attached
  mediaStream,         \* TRUE when this.mediaStream is held
  mediaStreamSource,   \* TRUE when this.mediaStreamSource is connected
  \* Environment
  timerArmed,          \* the timer playbackTimeoutId names is still pending
  decoding,            \* segments whose decodeAudioData call is in flight
  src,                 \* per segment: state of its AudioBufferSourceNode
  nextItem,            \* playAudioChunk calls made so far
  orphaned,            \* an earlier script processor is still connected to the graph
  trackEnabled,        \* the microphone track's enabled flag
  now,                 \* Date.now()
  frameNo,             \* handleAudioProcess calls made so far
  lastEnergy,          \* the energy of the last frame handled
  \* Observations
  events,              \* playback / error events dispatched, in order
  played,              \* segments in the order their source was started
  enq,                 \* segments in the order they were pushed on audioQueue
  timeoutWarnings,     \* safety-timer firings logged
  inFlightAtStop,      \* segments still being decoded when playback was stopped
  sent,                \* utterances handed to websocketService.sendAudio
  wsInterrupts,        \* calls of websocketService.interrupt
  highSeen,            \* some frame's energy exceeded voiceThreshold
  lastHigh,            \* time of the last frame that marked voice active
  lastFlush,           \* the frame whose handling ended a segment by silence timeout
  lastRecordingEvent,  \* the last recording event dispatched
  dataEvents,          \* RECORDING_DATA events dispatched so far
  captureRequested     \* startRecording() was called, and stopRecording() not since

playVars == <<audioQueue, isPlaying, isSpeaking, currentSource, playbackTimeoutId,
              timerArmed, src, events, played, timeoutWarnings, inFlightAtStop>>
decodeVars == <<decoding, nextItem, enq>>
captureVars == <<audioBuffer, isVoiceDetected, lastVoiceTime, sent>>
flagVars == <<isProcessing, isGreeting, isVisionProcessing>>
deviceVars == <<scriptProcessor, mediaStream, mediaStreamSource, orphaned, trackEnabled>>
frameVars == <<now, frameNo, lastEnergy, highSeen, lastHigh, lastFlush, wsInterrupts>>
recordVars == <<lastRecordingEvent, dataEvents>>

VARIABLES
  \* SessionManager
  lastRefreshAt,       \* lastRefreshAt.current
  currentSessionIdRef, \* currentSessionIdRef.current (and the currentSessionId state)
  sessionError,        \* the error state
  uiNow,               \* Date.now() as the component sees it
  uiTicks,             \* clock advances so far
  saveResults,         \* save_session_result messages handled so far
  listRequests,        \* list_sessions requests sent, with their time and origin
  lastSavedAt          \* time of the last successful save_session_result, or Null

sessionVars == <<lastRefreshAt, currentSessionIdRef, sessionError, uiNow, uiTicks,
                 saveResults, listRequests, lastSavedAt>>

VARIABLES
  \* Turn Orchestrator of one connection (server side)
  orchState,           \* state of the orchestrator
  current,             \* the turn being processed, or Null
  status,              \* per turn: its status
  transcript,          \* per turn: a transcript exists
  responseText,        \* per turn: the response text exists
  calls,               \* collaborator calls in flight (cancelled ones included)
  segments,            \* per turn: segments its synthesis call has produced
  buffered,            \* segments ready but not yet handed to the transport
  history,             \* the session history: recorded turns, in order
  outbox,              \* envelopes sent to the client, in order
  arrived,             \* utterances received so far
  signals              \* interrupt messages received so far

turnVars == <<orchState, current, status, transcript, responseText, calls, segments,
              buffered, history, outbox, arrived, signals>>

VARIABLES
  \* The client's end of the connection
  received             \* envelopes of outbox the client has handled so far

clientVars == <<received>>

VARIABLES
  \* The history the generation collaborator is called with
  conversation,        \* turns kept as context, oldest first
  appended,            \* turns appended so far
  context,             \* the context the collaborator received last
  contextAt            \* appended, at the time of that call

llmVars == <<conversation, appended, context, contextAt>>

VARIABLES
  \* PreferencesModal
  isOpen,              \* the isOpen prop
  isSaving,            \* the isSaving state
  saveError,           \* the saveError state is set
  updateCount,         \* updateCount of the confirmation effect's closure
  updateSuccess,       \* success of the confirmation effect's closure
  updates,             \* update requests sent and not yet confirmed, in order
  saves,               \* saves started so far
  got,                 \* per save: confirmations arrived
  allOk,               \* per save: every confirmation arrived reports success
  closes               \* onClose calls of the confirmation handlers

prefsVars == <<isOpen, isSaving, saveError, updateCount, updateSuccess,
               updates, saves,
               got, allOk, closes>>
peerVars == <<clientVars, llmVars, prefsVars>>
otherVars == <<sessionVars, turnVars, peerVars>>
audioVars == <<config, audioState, playVars, decodeVars, captureVars, flagVars,
               deviceVars, frameVars, recordVars, captureRequested>>

vars == <<config, audioState, playVars, decodeVars, captureVars, flagVars,
          deviceVars, frameVars, recordVars, captureRequested, otherVars>>

----------------------------------------------------------------------------
\* Events

Ev(t, i, p, r) == [type |-> t, interrupted |-> i, previousState |-> p, reason |-> r]
EvStart == Ev(PLAYBACK_START, FALSE, "-", "-")
EvEnd(r) == Ev(PLAYBACK_END, FALSE, SPEAKING, r)
EvError == Ev(AUDIO_ERROR, FALSE, "-", "-")

\* A recording event as dispatchEvent passes it to the listeners.
RecEv(t, b, e, v) == [type |-> t, buffer |-> b, energy |-> e, isVoice |-> v]
\* The data of an event that carries no frame: dispatchEvent(event, {})
NoFrame == [n |-> 0, e |-> 0]

Count(seq, t) == Cardinality({k \in DOMAIN seq : seq[k].type = t})

----------------------------------------------------------------------------
\* Playback.  The operators below work on a record of the fields playback
\* touches, so that the recursion of playNextChunk can be followed.

PB == [audioQueue |-> audioQueue, isPlaying |-> isPlaying, isSpeaking |-> isSpeaking,
       audioState |-> audioState, currentSource |-> currentSource,
       playbackTimeoutId |-> playbackTimeoutId, timerArmed |-> timerArmed,
       src |-> src, events |-> events, played |-> played,
       timeoutWarnings |-> timeoutWarnings, inFlightAtStop |-> inFlightAtStop]

SetPB(s) ==
  /\ audioQueue' = s.audioQueue
  /\ isPlaying' = s.isPlaying
  /\ isSpeaking' = s.isSpeaking
  /\ audioState' = s.audioState
  /\ currentSource' = s.currentSource
  /\ playbackTimeoutId' = s.playbackTimeoutId
  /\ timerArmed' = s.timerArmed
  /\ src' = s.src
  /\ events' = s.events
  /\ played' = s.played
  /\ timeoutWarnings' = s.timeoutWarnings
  /\ inFlightAtStop' = s.inFlightAtStop

\* if (this.playbackTimeoutId !== null) { clearTimeout(...); this.playbackTimeoutId = null }
ClearTimeout(s) == [s EXCEPT !.playbackTimeoutId = Null, !.timerArmed = FALSE]

\* isPlaying = false; isSpeaking = false; audioState = INACTIVE; dispatch PLAYBACK_END
EndPlayback(s, reason) ==
  [s EXCEPT !.isPlaying = FALSE, !.isSpeaking = FALSE, !.audioState = INACTIVE,
            !.events = Append(@, EvEnd(reason))]

\* Variant: PLAYBACK_START dispatched for every segment started.
StartEventsAlways(evs, wasPlaying) == Append(evs, EvStart)

\* PLAYBACK_START is dispatched only if we were not already playing
StartEvents(evs, wasPlaying) == IF wasPlaying THEN evs ELSE Append(evs, EvStart)

\* playNextChunk(); F is the set of segments whose source.start() throws.
RECURSIVE playNextChunk(_, _)
playNextChunk(s, F) ==
  LET s1 == ClearTimeout(s) IN
  IF s1.audioQueue = <<>>
  THEN EndPlayback(s1, "-")
  ELSE
    LET buffer == Head(s1.audioQueue)
        wasPlaying == s1.isPlaying
        s2 == [s1 EXCEPT !.audioQueue = Tail(@), !.isPlaying = TRUE,
                         !.isSpeaking = TRUE, !.audioState = SPEAKING,
                         !.currentSource = buffer]
    IN IF buffer \notin F
       THEN [s2 EXCEPT !.src[buffer] = "playing",
                       !.played = Append(@, buffer),
                       !.playbackTimeoutId = buffer,
                       !.timerArmed = TRUE,
                       !.events = StartEvents(@, wasPlaying)]
       ELSE LET s3 == [ClearTimeout(s2) EXCEPT !.src[buffer] = "failed",
                                               !.events = Append(@, EvError),
                                               !.currentSource = Null]
            IN IF s3.audioQueue # <<>>
               THEN playNextChunk(s3, F)
               ELSE EndPlayback(s3, "error")

\* source.onended of segment i
onended(s, i, F) ==
  LET s1 == [ClearTimeout(s) EXCEPT !.src[i] = "ended"] IN
  IF s1.audioQueue # <<>>
  THEN playNextChunk(s1, F)
  ELSE EndPlayback([s1 EXCEPT !.currentSource = Null], "-")

\* Variant: the safety timer only logs the anomaly.
safetyTimeoutLogOnly(s, F) ==
  [s EXCEPT !.timerArmed = FALSE, !.timeoutWarnings = @ + 1]

\* the safety timer's callback
safetyTimeout(s, F) ==
  LET s1 == [s EXCEPT !.timerArmed = FALSE, !.timeoutWarnings = @ + 1,
                      !.currentSource = Null] IN
  IF s1.audioQueue # <<>>
  THEN playNextChunk(s1, F)
  ELSE EndPlayback(s1, "timeout")

\* Variant: no early return.
NoSourceNever(s) == FALSE

\* if (!this.currentSource) return;
NoSource(s) == s.currentSource = Null

\* Variant: the current source is stopped but the queue is left to drain.
stopPlaybackKeepQueue(s) ==
  IF s.currentSource = Null
  THEN s
  ELSE LET previousState == s.audioState
           s1 == ClearTimeout(s)
       IN [s1 EXCEPT !.src[s.currentSource] = "stopped",
                     !.currentSource = Null,
                     !.audioState = IF previousState = SPEAKING THEN INTERRUPTED
                                    ELSE INACTIVE,
                     !.isPlaying = FALSE,
                     !.isSpeaking = FALSE,
                     !.inFlightAtStop = @ \cup decoding,
                     !.events = Append(@, Ev(PLAYBACK_STOP, previousState = SPEAKING,
                                             previousState, "-"))]

\* stopPlayback()
stopPlayback(s) ==
  IF NoSource(s)
  THEN s
  ELSE LET previousState == s.audioState
           s1 == ClearTimeout(s)
       IN [s1 EXCEPT !.src[s.currentSource] = "stopped",
                     !.currentSource = Null,
                     !.audioQueue = <<>>,
                     !.audioState = IF previousState = SPEAKING THEN INTERRUPTED
                                    ELSE INACTIVE,
                     !.isPlaying = FALSE,
                     !.isSpeaking = FALSE,
                     !.inFlightAtStop = @ \cup decoding,
                     !.events = Append(@, Ev(PLAYBACK_STOP, previousState = SPEAKING,
                                             previousState, "-"))]

----------------------------------------------------------------------------
\* SessionManager (components/SessionManager.tsx)

\* Date.now() when the component mounts: any time later than RefreshWindow
\* after the epoch.
MountTime == 2 * RefreshWindow

\* fetchSessions(), called from `by`
fetchSessions(reqs, t, by) == Append(reqs, [at |-> t, by |-> by])

\* Variant: a refresh is due as soon as the window has elapsed.
RefreshDueInclusive(t, last) == t - last >= RefreshWindow

\* now - lastRefreshAt.current > 2000
RefreshDue(t, last) == t - last > RefreshWindow

\* The component after mounting: the effect has called fetchSessions().
SessionInit ==
  /\ lastRefreshAt = 0
  /\ currentSessionIdRef = Null
  /\ sessionError = Null
  /\ uiNow = MountTime
  /\ uiTicks = 0
  /\ saveResults = 0
  /\ listRequests = fetchSessions(<<>>, MountTime, "mount")
  /\ lastSavedAt = Null

\* Time passes: a millisecond, or a whole window.
UiTick(d) ==
  /\ uiTicks < MaxTicks
  /\ uiTicks' = uiTicks + 1
  /\ uiNow' = uiNow + d
  /\ UNCHANGED <<lastRefreshAt, currentSessionIdRef, sessionError, saveResults,
                 listRequests, lastSavedAt>>
  /\ UNCHANGED <<audioVars, turnVars, peerVars>>

\* handleSaveSessionResult(data), data.session_id being id (Null when absent)
HandleSaveSessionResult(success, id) ==
  /\ saveResults < MaxSaveResults
  /\ saveResults' = saveResults + 1
  /\ IF success
     THEN /\ currentSessionIdRef' = IF id # Null THEN id ELSE currentSessionIdRef
          /\ IF RefreshDue(uiNow, lastRefreshAt)
             THEN /\ lastRefreshAt' = uiNow
                  /\ listRequests' = fetchSessions(listRequests, uiNow, "save")
             ELSE UNCHANGED <<lastRefreshAt, listRequests>>
          /\ lastSavedAt' = uiNow
          /\ UNCHANGED sessionError
     ELSE /\ sessionError' = 1
          /\ UNCHANGED <<currentSessionIdRef, lastRefreshAt, listRequests, lastSavedAt>>
  /\ UNCHANGED <<uiNow, uiTicks>>
  /\ UNCHANGED <<audioVars, turnVars, peerVars>>

\* handleDeleteSessionResult(data)
HandleDeleteSessionResult(success, id) ==
  /\ Len(listRequests) <= MaxSaveResults
  /\ IF success
     THEN /\ currentSessionIdRef' = IF id = currentSessionIdRef THEN Null
                                    ELSE currentSessionIdRef
          /\ listRequests' = fetchSessions(listRequests, uiNow, "delete")
          /\ UNCHANGED sessionError
     ELSE /\ sessionError' = 2
          /\ UNCHANGED <<currentSessionIdRef, listRequests>>
  /\ UNCHANGED <<lastRefreshAt, uiNow, uiTicks, saveResults, lastSavedAt>>
  /\ UNCHANGED <<audioVars, turnVars, peerVars>>

----------------------------------------------------------------------------
\* Turn Orchestrator (server side), one connection.

Idle == "Idle"
Transcribing == "Transcribing"
Generating == "Generating"
Synthesizing == "Synthesizing"
Streaming == "Streaming"

TurnIds == 1..MaxUtterances

\* A collaborator call awaited for turn id.
Call(id, kind) == [turn |-> id, kind |-> kind, cancelled |-> FALSE]
\* An envelope sent to the client (seg is 0 unless it carries a segment).
Env(type, id, seg) == [type |-> type, turn |-> id, seg |-> seg]
\* A turn as recorded in the session history.
Recorded(id, st) ==
  [turn |-> id, status |-> st, transcript |-> transcript[id],
   responseText |-> responseText[id], truncated |-> (st = "interrupted")]

\* Best-effort cancellation: the calls of turn id are marked, not removed.
Cancel(cs, id) ==
  {IF c.turn = id THEN [c EXCEPT !.cancelled = TRUE] ELSE c : c \in cs}

TurnInit ==
  /\ orchState = Idle
  /\ current = Null
  /\ status = [i \in TurnIds |-> "none"]
  /\ transcript = [i \in TurnIds |-> FALSE]
  /\ responseText = [i \in TurnIds |-> FALSE]
  /\ calls = {}
  /\ segments = [i \in TurnIds |-> 0]
  /\ buffered = <<>>
  /\ history = <<>>
  /\ outbox = <<>>
  /\ arrived = 0
  /\ signals = 0

\* Variant: an utterance never interrupts; it is simply taken up.
InterruptsNever(st) == FALSE

\* An utterance arriving while not Idle is an implicit interrupt.
Interrupts(st) == st # Idle

\* Variant: only a turn that is already streaming audio can be interrupted.
InterruptAppliesStreaming(st) == st = Streaming

\* An InterruptSignal acts while not Idle and is a no-op while Idle.
InterruptApplies(st) == st # Idle

\* Variant: the result of a cancelled call is applied like any other.
DiscardedNever(c) == FALSE

\* The eventual result of a cancelled call is discarded.
Discarded(c) == c.cancelled

\* Variant: the interrupted turn is recorded like a completed one.
RecordInterruptedAsComplete(id) ==
  [turn |-> id, status |-> "complete", transcript |-> transcript[id],
   responseText |-> responseText[id], truncated |-> FALSE]

\* The truncated turn recorded on an interrupt.
RecordInterrupted(id) == Recorded(id, "interrupted")

\* Variant: the turn is marked and the client told, but the orchestrator
\* stays in the state the call was awaited in.
EndTurnNoReset(c, st, envs) ==
  /\ status' = [status EXCEPT ![c.turn] = st]
  /\ outbox' = outbox \o envs
  /\ buffered' = <<>>
  /\ UNCHANGED <<orchState, current, transcript, responseText, history>>

\* The turn of the call ends without a result: Failed or dropped, then Idle.
EndTurn(c, st, envs) ==
  /\ status' = [status EXCEPT ![c.turn] = st]
  /\ outbox' = outbox \o envs
  /\ buffered' = <<>>
  /\ orchState' = Idle
  /\ current' = Null
  /\ UNCHANGED <<transcript, responseText, history>>

\* An Utterance arrives on the connection.
UtteranceArrives ==
  /\ arrived < MaxUtterances
  /\ LET id == arrived + 1
         busy == Interrupts(orchState)
     IN /\ arrived' = id
        /\ current' = id
        /\ orchState' = Transcribing
        /\ status' = [(IF busy THEN [status EXCEPT ![current] = "interrupted"]
                       ELSE status) EXCEPT ![id] = "transcribing"]
        /\ history' = IF busy THEN Append(history, RecordInterrupted(current))
                      ELSE history
        /\ calls' = (IF busy THEN Cancel(calls, current) ELSE calls)
                      \cup {Call(id, "transcribe")}
        /\ buffered' = IF busy THEN <<>> ELSE buffered
  /\ UNCHANGED <<transcript, responseText, segments, outbox, signals>>
  /\ UNCHANGED <<audioVars, sessionVars, peerVars>>

\* An InterruptSignal arrives on the connection.
InterruptSignal ==
  /\ signals < MaxInterrupts
  /\ signals' = signals + 1
  /\ IF InterruptApplies(orchState)
     THEN /\ calls' = Cancel(calls, current)
          /\ buffered' = <<>>
          /\ status' = [status EXCEPT ![current] = "interrupted"]
          /\ history' = Append(history, RecordInterrupted(current))
          /\ orchState' = Idle
          /\ current' = Null
     ELSE UNCHANGED <<calls, buffered, status, history, orchState, current>>
  /\ UNCHANGED <<transcript, responseText, segments, outbox, arrived>>
  /\ UNCHANGED <<audioVars, sessionVars, peerVars>>

\* The transcription call c returns, with text or with none.
TranscribeDone(c, nonEmpty) ==
  /\ c \in calls /\ c.kind = "transcribe"
  /\ IF Discarded(c)
     THEN /\ calls' = calls \ {c}
          /\ UNCHANGED <<orchState, current, status, transcript, responseText,
                         buffered, history, outbox>>
     ELSE IF nonEmpty
     THEN /\ calls' = (calls \ {c}) \cup {Call(c.turn, "generate")}
          /\ transcript' = [transcript EXCEPT ![c.turn] = TRUE]
          /\ outbox' = Append(outbox, Env("transcription", c.turn, 0))
          /\ orchState' = Generating
          /\ status' = [status EXCEPT ![c.turn] = "generating"]
          /\ UNCHANGED <<current, responseText, buffered, history>>
     ELSE /\ calls' = calls \ {c}
          /\ EndTurn(c, "dropped", <<>>)
  /\ UNCHANGED <<segments, arrived, signals>>
  /\ UNCHANGED <<audioVars, sessionVars, peerVars>>

\* The generation call c returns the response text.
GenerateDone(c) ==
  /\ c \in calls /\ c.kind = "generate"
  /\ IF Discarded(c)
     THEN /\ calls' = calls \ {c}
          /\ UNCHANGED <<orchState, status, responseText, outbox>>
     ELSE /\ calls' = (calls \ {c}) \cup {Call(c.turn, "synthesize")}
          /\ responseText' = [responseText EXCEPT ![c.turn] = TRUE]
          /\ outbox' = Append(outbox, Env("llm_response", c.turn, 0))
          /\ orchState' = Synthesizing
          /\ status' = [status EXCEPT ![c.turn] = "synthesizing"]
  /\ UNCHANGED <<current, transcript, segments, buffered, history, arrived, signals>>
  /\ UNCHANGED <<audioVars, sessionVars, peerVars>>

\* The synthesis call c produces its next segment.
SegmentReady(c) ==
  /\ c \in calls /\ c.kind = "synthesize"
  /\ segments[c.turn] < MaxSegments
  /\ segments' = [segments EXCEPT ![c.turn] = @ + 1]
  /\ IF Discarded(c)
     THEN UNCHANGED <<orchState, status, buffered, outbox>>
     ELSE /\ buffered' = Append(buffered, Env("tts_chunk", c.turn, segments[c.turn] + 1))
          /\ IF orchState = Synthesizing
             THEN /\ orchState' = Streaming
                  /\ status' = [status EXCEPT ![c.turn] = "streaming"]
                  /\ outbox' = Append(outbox, Env("tts_start", c.turn, 0))
             ELSE UNCHANGED <<orchState, status, outbox>>
  /\ UNCHANGED <<current, transcript, responseText, calls, history, arrived, signals>>
  /\ UNCHANGED <<audioVars, sessionVars, peerVars>>

\* The oldest buffered segment is handed to the transport.
Deliver ==
  /\ buffered # <<>>
  /\ outbox' = Append(outbox, Head(buffered))
  /\ buffered' = Tail(buffered)
  /\ UNCHANGED <<orchState, current, status, transcript, responseText, calls,
                 segments, history, arrived, signals>>
  /\ UNCHANGED <<audioVars, sessionVars, peerVars>>

\* The synthesis call c signals completion.
SynthDone(c) ==
  /\ c \in calls /\ c.kind = "synthesize"
  /\ segments[c.turn] >= 1
  /\ calls' = calls \ {c}
  /\ IF Discarded(c)
     THEN UNCHANGED <<orchState, current, status, buffered, history, outbox>>
     ELSE /\ outbox' = (outbox \o buffered) \o <<Env("tts_end", c.turn, 0)>>
          /\ buffered' = <<>>
          /\ status' = [status EXCEPT ![c.turn] = "complete"]
          /\ history' = Append(history, Recorded(c.turn, "complete"))
          /\ orchState' = Idle
          /\ current' = Null
  /\ UNCHANGED <<transcript, responseText, segments, arrived, signals>>
  /\ UNCHANGED <<audioVars, sessionVars, peerVars>>

\* The collaborator call c fails (or times out).
CallFails(c) ==
  /\ c \in calls
  /\ calls' = calls \ {c}
  /\ IF Discarded(c)
     THEN UNCHANGED <<orchState, current, status, transcript, responseText,
                     buffered, history, outbox>>
     ELSE EndTurn(c, "failed", <<Env("error", c.turn, 0)>>)
  /\ UNCHANGED <<segments, arrived, signals>>
  /\ UNCHANGED <<audioVars, sessionVars, peerVars>>

CallsOf == [turn : TurnIds, kind : {"transcribe", "generate", "synthesize"},
            cancelled : BOOLEAN]

----------------------------------------------------------------------------
\* History passed to the generation collaborator

\* The cap on the turns of context (default).
HistoryCap == 50

Min(a, b) == IF a < b THEN a ELSE b

HistoryInit ==
  /\ conversation = <<>>
  /\ appended = 0
  /\ context = <<>>
  /\ contextAt = 0

\* Variant: the cap keeps the oldest turns and drops the newest.
CappedOldest(h) == SubSeq(h, 1, Min(Len(h), HistoryCap))

\* The most recent HistoryCap turns of h: the oldest are dropped first.
Capped(h) ==
  IF Len(h) > HistoryCap THEN SubSeq(h, Len(h) - HistoryCap + 1, Len(h)) ELSE h

\* A finished turn is appended to the history.
AppendTurn ==
  /\ appended < MaxAppends
  /\ appended' = appended + 1
  /\ conversation' = Capped(Append(conversation, appended + 1))
  /\ UNCHANGED <<context, contextAt>>
  /\ UNCHANGED <<audioVars, sessionVars, turnVars, clientVars, prefsVars>>

\* The generation collaborator is called with the history as context.
Generate ==
  /\ context' = conversation
  /\ contextAt' = appended
  /\ UNCHANGED <<conversation, appended>>
  /\ UNCHANGED <<audioVars, sessionVars, turnVars, clientVars, prefsVars>>

----------------------------------------------------------------------------
\* PreferencesModal: saving and the update confirmations

\* const expectedUpdateCount = 4
expectedUpdateCount == 4

\* The updates of one save, in the order handleSave sends them.
UpdateKinds == <<"system_prompt", "user_profile", "vision_settings", "voice_settings">>

SaveIds == 1..MaxSaves

PrefsInit ==
  /\ isOpen = FALSE
  /\ isSaving = FALSE
  /\ saveError = FALSE
  /\ updateCount = 0
  /\ updateSuccess = TRUE
  /\ updates = <<>>
  /\ saves = 0
  /\ got = [n \in SaveIds |-> 0]
  /\ allOk = [n \in SaveIds |-> TRUE]
  /\ closes = <<>>

\* The parent opens the modal: the isOpen effect resets saveError.
OpenModal ==
  /\ ~isOpen
  /\ isOpen' = TRUE
  /\ saveError' = FALSE
  /\ UNCHANGED <<isSaving, updateCount, updateSuccess, updates, saves, got, allOk, closes>>
  /\ UNCHANGED <<audioVars, sessionVars, turnVars, clientVars, llmVars>>

\* The confirmation effect runs again (activeTab changed, or the parent passed
\* another onClose): its closure starts from fresh counters.
EffectRerun ==
  /\ updateCount' = 0
  /\ updateSuccess' = TRUE
  /\ UNCHANGED <<isOpen, isSaving, saveError, updates, saves, got, allOk, closes>>
  /\ UNCHANGED <<audioVars, sessionVars, turnVars, clientVars, llmVars>>

\* handleSave(), from the Save button (disabled while isSaving); emptyPrompt:
\* the system tab is active and the prompt is empty.
HandleSave(emptyPrompt) ==
  /\ isOpen /\ ~isSaving
  /\ saves < MaxSaves
  /\ IF emptyPrompt
     THEN /\ saveError' = TRUE
          /\ UNCHANGED <<isSaving, updates, saves>>
     ELSE /\ isSaving' = TRUE
          /\ saveError' = FALSE
          /\ saves' = saves + 1
          /\ updates' = updates \o [k \in 1..Len(UpdateKinds) |->
                                      [save |-> saves + 1, kind |-> UpdateKinds[k]]]
  /\ UNCHANGED <<isOpen, updateCount, updateSuccess, got, allOk, closes>>
  /\ UNCHANGED <<audioVars, sessionVars, turnVars, clientVars, llmVars>>

\* if (updateCount >= expectedUpdateCount) { ...; if (success) onClose(); }
ClosesOn(cnt, ok) == cnt >= expectedUpdateCount /\ ok

\* The confirmation of the oldest outstanding update arrives: its handler runs.
HandleUpdated(ok) ==
  /\ updates # <<>>
  /\ LET u == Head(updates)
         cnt == updateCount + 1
         succ == updateSuccess /\ ok
     IN /\ updates' = Tail(updates)
        /\ got' = [got EXCEPT ![u.save] = @ + 1]
        /\ allOk' = [allOk EXCEPT ![u.save] = @ /\ ok]
        /\ updateCount' = cnt
        /\ updateSuccess' = succ
        /\ saveError' = (saveError \/ ~ok)
        /\ isSaving' = IF cnt >= expectedUpdateCount THEN FALSE ELSE isSaving
        /\ IF ClosesOn(cnt, succ)
           THEN /\ isOpen' = FALSE
                /\ closes' = Append(closes, [save |-> u.save, got |-> got'[u.save],
                                             allOk |-> allOk'[u.save]])
           ELSE UNCHANGED <<isOpen, closes>>
  /\ UNCHANGED saves
  /\ UNCHANGED <<audioVars, sessionVars, turnVars, clientVars, llmVars>>

----------------------------------------------------------------------------
\* The state after construction with the given configuration.
InitWith(c) ==
  /\ SessionInit
  /\ TurnInit
  /\ received = 0
  /\ HistoryInit
  /\ PrefsInit
  /\ config = c
  /\ audioState = INACTIVE
  /\ audioQueue = <<>>
  /\ isPlaying = FALSE
  /\ isSpeaking = FALSE
  /\ currentSource = Null
  /\ playbackTimeoutId = Null
  /\ audioBuffer = <<>>
  /\ isVoiceDetected = FALSE
  /\ lastVoiceTime = 0
  /\ isProcessing = FALSE
  /\ isGreeting = FALSE
  /\ isVisionProcessing = FALSE
  /\ scriptProcessor = FALSE
  /\ mediaStream = FALSE
  /\ mediaStreamSource = FALSE
  /\ timerArmed = FALSE
  /\ decoding = {}
  /\ src = [i \in Items |-> "none"]
  /\ nextItem = 0
  /\ orphaned = FALSE
  /\ trackEnabled = FALSE
  /\ now = 0
  /\ frameNo = 0
  /\ lastEnergy = 0
  /\ events = <<>>
  /\ played = <<>>
  /\ enq = <<>>
  /\ timeoutWarnings = 0
  /\ inFlightAtStop = {}
  /\ sent = <<>>
  /\ wsInterrupts = 0
  /\ highSeen = FALSE
  /\ lastHigh = 0
  /\ lastFlush = 0
  /\ lastRecordingEvent = RecEv("none", NoFrame, 0, FALSE)
  /\ dataEvents = 0
  /\ captureRequested = FALSE

----------------------------------------------------------------------------
\* Playback actions.  F is the set of segments whose source.start() throws
\* during the step.

Queued == {audioQueue[k] : k \in DOMAIN audioQueue}

\* playAudioChunk is called: the segment's decodeAudioData call is in flight.
PlayAudioChunk ==
  /\ nextItem < MaxItems
  /\ nextItem' = nextItem + 1
  /\ decoding' = decoding \cup {nextItem + 1}
  /\ UNCHANGED <<config, otherVars, recordVars, captureRequested, audioState, playVars, enq, captureVars, flagVars,
                 deviceVars, frameVars>>

\* decodeAudioData of segment i resolves: push, and play if not already playing.
DecodeDone(i, F) ==
  /\ i \in decoding
  /\ decoding' = decoding \ {i}
  /\ enq' = Append(enq, [item |-> i, queued |-> isPlaying])
  /\ LET s == [PB EXCEPT !.audioQueue = Append(@, i)] IN
     IF ~isPlaying
     THEN SetPB(playNextChunk(s, F))
     ELSE F = {} /\ SetPB(s)
  /\ UNCHANGED <<config, otherVars, recordVars, captureRequested, nextItem, captureVars, flagVars, deviceVars, frameVars>>

\* decodeAudioData of segment i rejects.
DecodeFail(i) ==
  /\ i \in decoding
  /\ decoding' = decoding \ {i}
  /\ LET s == [PB EXCEPT !.events = Append(@, EvError)] IN
     IF s.audioQueue = <<>>
     THEN SetPB(EndPlayback(s, "error"))
     ELSE SetPB(s)
  /\ UNCHANGED <<config, otherVars, recordVars, captureRequested, nextItem, enq, captureVars, flagVars, deviceVars, frameVars>>

\* The ended event of segment i's source: it played to its end, or was stopped.
OnEnded(i, F) ==
  /\ src[i] \in {"playing", "stopped"}
  /\ F \subseteq Queued
  /\ SetPB(onended(PB, i, F))
  /\ UNCHANGED <<config, otherVars, recordVars, captureRequested, decodeVars, captureVars, flagVars, deviceVars, frameVars>>

\* The pending safety timer fires.
SafetyTimeout(F) ==
  /\ timerArmed
  /\ F \subseteq Queued
  /\ SetPB(safetyTimeout(PB, F))
  /\ UNCHANGED <<config, otherVars, recordVars, captureRequested, decodeVars, captureVars, flagVars, deviceVars, frameVars>>

StopPlayback ==
  /\ SetPB(stopPlayback(PB))
  /\ UNCHANGED <<config, otherVars, recordVars, captureRequested, decodeVars, captureVars, flagVars, deviceVars, frameVars>>

\* The client handles the next envelope of the connection, in send order; the
\* payload of a tts_chunk is passed to playAudioChunk.
ReceiveEnvelope ==
  /\ received < Len(outbox)
  /\ received' = received + 1
  /\ IF outbox[received + 1].type = "tts_chunk"
     THEN /\ nextItem < MaxItems
          /\ nextItem' = nextItem + 1
          /\ decoding' = decoding \cup {nextItem + 1}
     ELSE UNCHANGED <<nextItem, decoding>>
  /\ UNCHANGED <<config, sessionVars, turnVars, llmVars, prefsVars, audioState, playVars, enq,
                 captureVars, flagVars, deviceVars, frameVars, recordVars, captureRequested>>

----------------------------------------------------------------------------
\* Capture

\* Milliseconds of audio in one frame (bufferSize samples at sampleRate),
\* rounded down: the period of the audio callback when it runs on time.
FrameMs == (config.bufferSize * 1000) \div config.sampleRate

\* Wall-clock time between two audio callbacks: on time, or late by exactly
\* the silence timeout.
Deltas == {FrameMs, silenceTimeout}

Protected == isProcessing \/ isVisionProcessing \/ isGreeting

\* Variant: a frame exactly at the threshold counts as voice.
IsVoiceInclusive(e) == e >= voiceThreshold

\* energy > this.voiceThreshold
IsVoice(e) == e > voiceThreshold

\* reduce((acc, buffer) => acc + buffer.length, 0)
RECURSIVE TotalLength(_)
TotalLength(buf) ==
  IF buf = <<>> THEN 0 ELSE config.bufferSize + TotalLength(Tail(buf))

\* Variant: the sample count compared with the millisecond limit.
TooShortSamples(buf) == TotalLength(buf) < minRecordingLength

\* audioLengthMs < this.minRecordingLength, with
\* audioLengthMs = totalLength / sampleRate * 1000
TooShort(buf) == TotalLength(buf) * 1000 < minRecordingLength * config.sampleRate

\* Variant: each frame copied in front of the ones already copied.
RECURSIVE CombineReversed(_, _)
CombineReversed(buf, acc) ==
  IF buf = <<>> THEN acc ELSE CombineReversed(Tail(buf), <<Head(buf)>> \o acc)

\* for (const buffer of this.audioBuffer) { combined.set(buffer, offset); ... }
RECURSIVE Combine(_, _)
Combine(buf, acc) ==
  IF buf = <<>> THEN acc ELSE Combine(Tail(buf), Append(acc, Head(buf)))

\* Variant: the buffer is not cleared after a send.
sendAudioChunkKeep(buf, voice, processing, out) ==
  IF buf = <<>> THEN [audioBuffer |-> buf, sent |-> out]
  ELSE IF processing THEN [audioBuffer |-> <<>>, sent |-> out]
  ELSE IF ~voice /\ (TotalLength(buf) * 1000 < minRecordingLength * config.sampleRate)
       THEN [audioBuffer |-> <<>>, sent |-> out]
  ELSE [audioBuffer |-> buf, sent |-> Append(out, buf)]

\* sendAudioChunk() on a buffer: the buffer it leaves and the utterances sent.
sendAudioChunk(buf, voice, processing, out) ==
  IF buf = <<>> THEN [audioBuffer |-> buf, sent |-> out]
  ELSE IF processing THEN [audioBuffer |-> <<>>, sent |-> out]
  ELSE IF ~voice /\ TooShort(buf) THEN [audioBuffer |-> <<>>, sent |-> out]
  ELSE [audioBuffer |-> <<>>, sent |-> Append(out, Combine(buf, <<>>))]

\* Variant: the timeout counts as exceeded when it is just reached.
SilenceReached(t, last) == t - last >= silenceTimeout

\* timeSinceVoice > this.silenceTimeout
SilenceExceeded(t, last) == t - last > silenceTimeout

\* A frame refreshes lastVoiceTime when it is voice (outside a protected state).
RefreshVoiceTime(t, last) == t

\* Variant: the barge-in is not tied to the transition into voice-active.
BargeInEveryFrame(voiceBefore) ==
  /\ (isSpeaking \/ audioState = SPEAKING)
  /\ ~isGreeting

\* The barge-in condition of handleAudioProcess, evaluated before the frame
\* marks voice active.
BargeIn(voiceBefore) ==
  /\ ~voiceBefore
  /\ (isSpeaking \/ audioState = SPEAKING)
  /\ ~isGreeting

\* Variant: the event always carries isVoiceDetected.
RecordingDataVoice(bufferCopy, e, protected, voice) ==
  RecEv(RECORDING_DATA, bufferCopy, e, voice)

\* The RECORDING_DATA event of a frame: isVoice is forced to false in a
\* protected state and is this.isVoiceDetected otherwise.
RecordingData(bufferCopy, e, protected, voice) ==
  RecEv(RECORDING_DATA, bufferCopy, e, IF protected THEN FALSE ELSE voice)

\* startRecording(), with microphone access granted.
StartRecording ==
  /\ IF audioState = RECORDING
     THEN UNCHANGED <<audioState, captureVars, deviceVars, recordVars>>
     ELSE /\ mediaStream' = TRUE
          /\ trackEnabled' = TRUE
          /\ orphaned' = (orphaned \/ scriptProcessor)
          /\ mediaStreamSource' = TRUE
          /\ scriptProcessor' = TRUE
          /\ audioBuffer' = <<>>
          /\ audioState' = RECORDING
          /\ isVoiceDetected' = FALSE
          /\ lastVoiceTime' = 0
          /\ lastRecordingEvent' = RecEv(RECORDING_START, NoFrame, 0, FALSE)
          /\ UNCHANGED <<sent, dataEvents>>
  /\ captureRequested' = TRUE
  /\ UNCHANGED <<config, otherVars, playVars, decodeVars, flagVars, frameVars>>

\* Variant: stopRecording() does not look at audioState.
IsRecordingAlways(st) == TRUE

\* this.audioState === AudioState.RECORDING
IsRecording(st) == st = RECORDING

\* stopRecording()
StopRecording ==
  /\ IF ~IsRecording(audioState)
     THEN UNCHANGED <<audioState, captureVars, deviceVars, recordVars>>
     ELSE LET r == sendAudioChunk(audioBuffer, isVoiceDetected, isProcessing, sent) IN
          /\ scriptProcessor' = FALSE
          /\ mediaStreamSource' = FALSE
          /\ trackEnabled' = IF mediaStream THEN FALSE ELSE trackEnabled
          /\ sent' = r.sent
          /\ audioState' = INACTIVE
          /\ audioBuffer' = <<>>
          /\ lastRecordingEvent' = RecEv(RECORDING_STOP, NoFrame, 0, FALSE)
          /\ UNCHANGED <<isVoiceDetected, lastVoiceTime, mediaStream, orphaned, dataEvents>>
  /\ captureRequested' = FALSE
  /\ UNCHANGED <<config, otherVars, playVars, decodeVars, flagVars, frameVars>>

\* releaseHardware(): stopRecording(), stopPlayback(), then the timer, the
\* tracks, the nodes and the state.
ReleaseHardware ==
  LET recording == IsRecording(audioState)
      r == IF recording
           THEN sendAudioChunk(audioBuffer, isVoiceDetected, isProcessing, sent)
           ELSE [audioBuffer |-> audioBuffer, sent |-> sent]
      p0 == [PB EXCEPT !.audioState = IF recording THEN INACTIVE ELSE @]
      p1 == [ClearTimeout(stopPlayback(p0)) EXCEPT !.inFlightAtStop = @ \cup decoding]
  IN /\ sent' = r.sent
     /\ lastRecordingEvent' = IF recording THEN RecEv(RECORDING_STOP, NoFrame, 0, FALSE)
                               ELSE lastRecordingEvent
     /\ trackEnabled' = IF mediaStream THEN FALSE ELSE trackEnabled
     /\ mediaStream' = FALSE
     /\ scriptProcessor' = FALSE
     /\ mediaStreamSource' = FALSE
     /\ isVoiceDetected' = FALSE
     /\ audioBuffer' = <<>>
     /\ SetPB([p1 EXCEPT !.audioState = INACTIVE, !.isPlaying = FALSE,
                         !.isSpeaking = FALSE])
     /\ captureRequested' = FALSE
     /\ UNCHANGED <<config, otherVars, decodeVars, flagVars, frameVars, lastVoiceTime,
                    orphaned, dataEvents>>

SetProcessingState(b) ==
  /\ isProcessing' = b
  /\ UNCHANGED <<config, otherVars, recordVars, captureRequested, audioState, playVars, decodeVars, captureVars, isGreeting,
                 isVisionProcessing, deviceVars, frameVars>>

SetGreetingState(b) ==
  /\ isGreeting' = b
  /\ UNCHANGED <<config, otherVars, recordVars, captureRequested, audioState, playVars, decodeVars, captureVars, isProcessing,
                 isVisionProcessing, deviceVars, frameVars>>

SetVisionProcessingState(b) ==
  /\ isVisionProcessing' = b
  /\ UNCHANGED <<config, otherVars, recordVars, captureRequested, audioState, playVars, decodeVars, captureVars, isProcessing,
                 isGreeting, deviceVars, frameVars>>

\* handleAudioProcess(event): an attached script processor delivers a frame of
\* energy e, dt milliseconds after the previous callback.
HandleAudioProcess(e, dt) ==
  /\ scriptProcessor \/ orphaned
  /\ frameNo < MaxFrames
  /\ trackEnabled \/ e <= voiceThreshold    \* a disabled track delivers silence
  /\ LET t == now + dt
         bufferCopy == [n |-> frameNo + 1, e |-> e]
         marks == IsVoice(e) /\ ~Protected
         onset == marks /\ ~isVoiceDetected
         barge == marks /\ BargeIn(isVoiceDetected)
         voice1 == isVoiceDetected \/ marks
         last1 == IF marks THEN RefreshVoiceTime(t, lastVoiceTime) ELSE lastVoiceTime
         p1 == IF barge
               THEN [stopPlayback(PB) EXCEPT
                       !.events = Append(@, Ev(PLAYBACK_STOP, TRUE, "-", "user_interrupt"))]
               ELSE PB
         accumulate == ~Protected /\ voice1
         buf1 == IF accumulate THEN Append(audioBuffer, bufferCopy) ELSE audioBuffer
         flush == accumulate /\ ~IsVoice(e) /\ SilenceExceeded(t, last1)
         voice2 == IF flush THEN FALSE ELSE voice1
         r == IF flush THEN sendAudioChunk(buf1, voice2, isProcessing, sent)
              ELSE [audioBuffer |-> buf1, sent |-> sent]
     IN /\ now' = t
        /\ frameNo' = frameNo + 1
        /\ lastEnergy' = e
        /\ highSeen' = (highSeen \/ e > voiceThreshold)
        /\ lastHigh' = IF marks THEN t ELSE lastHigh
        /\ lastFlush' = IF flush THEN frameNo + 1 ELSE lastFlush
        /\ isVoiceDetected' = voice2
        /\ lastVoiceTime' = last1
        /\ SetPB(p1)
        /\ wsInterrupts' = IF barge THEN wsInterrupts + 1 ELSE wsInterrupts
        /\ audioBuffer' = r.audioBuffer
        /\ sent' = r.sent
        /\ lastRecordingEvent' = RecordingData(bufferCopy, e, Protected, voice2)
        /\ dataEvents' = dataEvents + 1
  /\ UNCHANGED <<config, otherVars, decodeVars, flagVars, deviceVars, captureRequested>>

----------------------------------------------------------------------------
\* Specifications

Init == InitWith(DEFAULT_CONFIG)

\* The playback controller under every interleaving of playAudioChunk calls,
\* decode completions, ended events, the safety timer and stopPlayback.
NextPlayback ==
  \/ PlayAudioChunk
  \/ \E i \in Items : DecodeDone(i, {})
  \/ \E i \in Items : DecodeFail(i)
  \/ \E i \in Items : OnEnded(i, {})
  \/ SafetyTimeout({})
  \/ StopPlayback

SpecPlayback == Init /\ [][NextPlayback]_vars

\* The same, where a pending timer (window.setTimeout) that is not cleared
\* eventually fires.  Ended events are not required to fire.
SpecPlaybackFair == SpecPlayback /\ WF_vars(SafetyTimeout({}))

\* The same, with the recording calls that share audioState.
NextPlaybackRec ==
  \/ NextPlayback
  \/ StartRecording
  \/ StopRecording

SpecPlaybackRec == Init /\ [][NextPlaybackRec]_vars

\* Capture and voice-activity detection, with one reply segment being played
\* so that a barge-in can happen.
NextCapture ==
  \/ StartRecording
  \/ StopRecording
  \/ \E b \in BOOLEAN : SetProcessingState(b)
  \/ \E b \in BOOLEAN : SetGreetingState(b)
  \/ \E b \in BOOLEAN : SetVisionProcessingState(b)
  \/ \E e \in Energies, dt \in Deltas : HandleAudioProcess(e, dt)
  \/ (nextItem < 1 /\ PlayAudioChunk)
  \/ \E i \in Items : DecodeDone(i, {})
  \/ \E i \in Items : OnEnded(i, {})

SpecCapture == InitWith(LargeFrameConfig) /\ [][NextCapture]_vars

\* The voice-activity detector against a reply of several segments: frames
\* arrive on time while segments are enqueued, played, ended or timed out.
NextBargeIn ==
  \/ StartRecording
  \/ \E e \in Energies : (frameNo < MaxBargeFrames /\ HandleAudioProcess(e, FrameMs))
  \/ (nextItem < MaxBargeItems /\ PlayAudioChunk)
  \/ \E i \in Items : DecodeDone(i, {})
  \/ \E i \in Items : OnEnded(i, {})
  \/ SafetyTimeout({})

SpecBargeIn == Init /\ [][NextBargeIn]_vars

\* The session list: save and delete results arriving as time passes.
NextSessions ==
  \/ \E d \in {1, RefreshWindow} : UiTick(d)
  \/ \E success \in BOOLEAN, id \in SessionIds \cup {Null} :
       HandleSaveSessionResult(success, id)
  \/ \E success \in BOOLEAN, id \in SessionIds : HandleDeleteSessionResult(success, id)

SpecSessions == Init /\ [][NextSessions]_vars

\* The same, where time keeps passing.
SpecSessionsFair ==
  SpecSessions /\ WF_vars(\E d \in {1, RefreshWindow} : UiTick(d))

\* The Turn Orchestrator of one connection under every interleaving of
\* utterances, interrupts and collaborator completions and failures.
NextTurns ==
  \/ UtteranceArrives
  \/ InterruptSignal
  \/ \E c \in CallsOf, nonEmpty \in BOOLEAN : TranscribeDone(c, nonEmpty)
  \/ \E c \in CallsOf : GenerateDone(c)
  \/ \E c \in CallsOf : SegmentReady(c)
  \/ Deliver
  \/ \E c \in CallsOf : SynthDone(c)
  \/ \E c \in CallsOf : CallFails(c)

SpecTurns == Init /\ [][NextTurns]_vars

\* One turn from the utterance to the end of its playback on the client: the
\* orchestrator's envelopes reach the client in order and every tts_chunk is
\* decoded and played.  No interrupt and no failure; the safety timer of a
\* playing segment may expire.
NextReply ==
  \/ (arrived = 0 /\ UtteranceArrives)
  \/ \E c \in CallsOf, nonEmpty \in BOOLEAN : TranscribeDone(c, nonEmpty)
  \/ \E c \in CallsOf : GenerateDone(c)
  \/ \E c \in CallsOf : SegmentReady(c)
  \/ Deliver
  \/ \E c \in CallsOf : SynthDone(c)
  \/ ReceiveEnvelope
  \/ \E i \in Items : DecodeDone(i, {})
  \/ \E i \in Items : OnEnded(i, {})
  \/ SafetyTimeout({})

SpecReply == Init /\ [][NextReply]_vars

\* The history of one connection: turns are appended and the generation
\* collaborator is called, in any order.
NextHistory ==
  \/ AppendTurn
  \/ Generate

SpecHistory == Init /\ [][NextHistory]_vars

\* The preferences modal: opened, saved and confirmed, the effect running
\* again at any time.
NextPrefs ==
  \/ OpenModal
  \/ EffectRerun
  \/ \E emptyPrompt \in BOOLEAN : HandleSave(emptyPrompt)
  \/ \E ok \in BOOLEAN : HandleUpdated(ok)

SpecPrefs == Init /\ [][NextPrefs]_vars

\* The playback controller and the recording calls, with the hardware released
\* at any point.
NextRelease ==
  \/ NextPlaybackRec
  \/ ReleaseHardware

SpecRelease == Init /\ [][NextRelease]_vars

----------------------------------------------------------------------------
\* Properties

Last(seq) == seq[Len(seq)]

\* The step is a call of handleAudioProcess.
FrameStep == frameNo' = frameNo + 1
\* The frame handled by the step, as it is copied into audioBuffer.
FrameOf == [n |-> frameNo', e |-> lastEnergy']
\* The step ended the current segment by silence timeout.
FlushStep == FrameStep /\ lastFlush' = frameNo'
\* Duration of the segment with the frame of the step: at least minRecordingLength.
LongEnough ==
  (Len(audioBuffer) + 1) * config.bufferSize * 1000 >= minRecordingLength * config.sampleRate

\* C1 (as claimed): stopPlayback() while item 2 of 3 enqueued items is playing
\* stops the current source, empties audioQueue and dispatches PLAYBACK_STOP
\* with interrupted: true; and with nothing queued and no playAudioChunk call
\* in flight, no item starts playing.
C1_Item2Of3 ==
  /\ nextItem = 3
  /\ decoding = {}
  /\ played = <<1, 2>>
  /\ currentSource = 2
  /\ src[2] = "playing"
  /\ audioQueue = <<3>>

C1_StopInterrupts ==
  [][(C1_Item2Of3 /\ StopPlayback) =>
       /\ src'[2] = "stopped"
       /\ currentSource' = Null
       /\ audioQueue' = <<>>
       /\ Len(events') = Len(events) + 1
       /\ Last(events').type = PLAYBACK_STOP
       /\ Last(events').interrupted = TRUE
       /\ played' = played]_vars
  /\ [][(audioQueue = <<>> /\ decoding = {}) => played' = played]_vars

\* C2: segments enqueued in the order 1, 2, 3, each later one queued while
\* playback was going on, with no stop, timer firing or error, are played in
\* that order with exactly one PLAYBACK_START (for the first) and exactly one
\* PLAYBACK_END (once the last has ended).
C2_Batch ==
  /\ enq # <<>>
  /\ \A k \in DOMAIN enq : enq[k].item = k /\ (k > 1 => enq[k].queued)
  /\ timeoutWarnings = 0
  /\ Count(events, PLAYBACK_STOP) = 0
  /\ Count(events, AUDIO_ERROR) = 0

C2_AllEnded == \A k \in DOMAIN enq : src[enq[k].item] = "ended"

C3_ArrivalOrder ==
  \A j, k \in DOMAIN played : j < k => played[j] < played[k]

\* C4: a frame handled by handleAudioProcess raises the barge-in (playback
\* stopped locally, one websocket interrupt, a PLAYBACK_STOP event) exactly
\* when it is the transition into voice-active while the assistant is
\* speaking and no protected flag is set; any other frame, in particular a
\* later above-threshold frame of the same onset, raises none.
C4_Onset ==
  /\ lastEnergy' > voiceThreshold
  /\ ~isVoiceDetected
  /\ ~Protected
  /\ (isSpeaking \/ audioState = SPEAKING)

C4_OncePerOnset ==
  [][FrameStep =>
       IF C4_Onset
       THEN /\ wsInterrupts' = wsInterrupts + 1
            /\ isVoiceDetected'
            /\ ~isSpeaking' /\ ~isPlaying' /\ currentSource' = Null /\ audioQueue' = <<>>
            /\ Last(events') = Ev(PLAYBACK_STOP, TRUE, "-", "user_interrupt")
       ELSE /\ wsInterrupts' = wsInterrupts
            /\ UNCHANGED <<audioState, playVars>>]_vars

C4_Witness ==
  /\ wsInterrupts = 1
  /\ isVoiceDetected
  /\ lastEnergy > voiceThreshold
  /\ Len(audioBuffer) >= 2
  /\ audioBuffer[1].e > voiceThreshold

\* C5 (as claimed): while a protected flag is set no operation appends a frame
\* to audioBuffer, sends a websocket interrupt, stops playback from the VAD or
\* calls sendAudio.
C5_ProtectedInert ==
  [][Protected =>
       /\ Len(audioBuffer') <= Len(audioBuffer)
       /\ wsInterrupts' = wsInterrupts
       /\ (FrameStep => UNCHANGED <<audioState, playVars>>)
       /\ sent' = sent]_vars

\* C6: as long as no frame's energy has exceeded voiceThreshold, no utterance
\* has been sent.
C6_SilenceSendsNothing == ~highSeen => sent = <<>>

C6_Witness ==
  /\ ~highSeen
  /\ frameNo >= 3
  /\ lastEnergy = voiceThreshold
  /\ mediaStream /\ audioState = INACTIVE /\ ~scriptProcessor

\* C7: when the silence timeout elapses for a segment whose duration is at
\* least minRecordingLength, exactly one utterance is sent in that step and it
\* is the accumulated frames followed by the frame just handled, in order.
C7_SilenceElapsed ==
  /\ FrameStep
  /\ isVoiceDetected
  /\ ~Protected
  /\ lastEnergy' <= voiceThreshold
  /\ now' - lastHigh > silenceTimeout

C7_WholeSegmentSent ==
  [][(C7_SilenceElapsed /\ LongEnough) =>
       /\ sent' = Append(sent, Append(audioBuffer, FrameOf))
       /\ audioBuffer' = <<>>]_vars

C7_Witness ==
  /\ lastFlush = frameNo
  /\ Len(sent) = 1
  /\ Len(sent[1]) >= 3
  /\ \A k \in DOMAIN sent[1] : sent[1][k].n = sent[1][1].n + k - 1
  /\ Last(sent[1]).n = frameNo
  /\ audioBuffer = <<>>

\* C8 (as claimed): a segment finalized by the silence timeout is emitted if
\* it lasts at least minRecordingLength or voice was detected during it, and
\* is discarded otherwise.
C8_VoiceInSegment ==
  \E k \in DOMAIN audioBuffer : audioBuffer[k].e > voiceThreshold

C8_EmittedIfLongOrVoice ==
  [][FlushStep =>
       IF LongEnough \/ C8_VoiceInSegment
       THEN sent' = Append(sent, Append(audioBuffer, FrameOf))
       ELSE sent' = sent]_vars

\* C8 (amended): a segment finalized by the silence timeout is emitted if and
\* only if it lasts at least minRecordingLength; a shorter one is discarded
\* silently (no utterance, no event), voice having been detected in it or not.
C8_EmittedIffLong ==
  [][FlushStep =>
       /\ audioBuffer' = <<>>
       /\ ~isVoiceDetected'
       /\ events' = events
       /\ IF LongEnough
          THEN sent' = Append(sent, Append(audioBuffer, FrameOf))
          ELSE sent' = sent]_vars

C8_Witness ==
  /\ lastFlush = frameNo
  /\ lastFlush > 0
  /\ highSeen
  /\ sent = <<>>
  /\ audioBuffer = <<>>
  /\ audioState = RECORDING

\* C9: no captured frame is in two sent utterances or twice in one, and no
\* frame of an utterance already sent is still in audioBuffer.
C9_AtMostOnce ==
  /\ \A u, v \in DOMAIN sent : \A j \in DOMAIN sent[u], k \in DOMAIN sent[v] :
       sent[u][j].n = sent[v][k].n => (u = v /\ j = k)
  /\ \A u \in DOMAIN sent : \A j \in DOMAIN sent[u], k \in DOMAIN audioBuffer :
       sent[u][j].n # audioBuffer[k].n

C9_Witness ==
  /\ Len(sent) = 2
  /\ lastFlush > 0
  /\ Last(sent[1]).n = lastFlush
  /\ audioState = INACTIVE
  /\ audioBuffer = <<>>

C11_Current(i) == currentSource = i /\ src[i] = "playing" /\ isPlaying

C11_Followed(i) ==
  \/ \E j, k \in DOMAIN played : j < k /\ played[j] = i
  \/ (~isPlaying /\ ~isSpeaking /\ events # <<>> /\ Last(events).type = PLAYBACK_END)
  \/ src[i] = "stopped"

C11_TimerAdvances == \A i \in Items : C11_Current(i) ~> C11_Followed(i)

\* The timer of segment 1 has advanced the queue to segment 2 and then ended
\* playback, no ended event having fired.
C11_Witness ==
  /\ timeoutWarnings = 2
  /\ played = <<1, 2>>
  /\ src[1] = "playing" /\ src[2] = "playing"
  /\ ~isPlaying /\ ~isSpeaking
  /\ Last(events) = EvEnd("timeout")

\* C12 (as claimed): PLAYBACK_STOP is terminal for the playback it stops: it
\* carries the state that was interrupted, and no PLAYBACK_END of a natural
\* end follows it unless a new playback has started (PLAYBACK_START) in
\* between.
C12_StopTerminal ==
  /\ \A k \in DOMAIN events :
       events[k].type = PLAYBACK_STOP => events[k].previousState \in AudioState
  /\ \A k, m \in DOMAIN events :
       (k < m /\ events[k].type = PLAYBACK_STOP /\ events[m] = EvEnd("-")) =>
         \E j \in (k + 1)..(m - 1) : events[j].type = PLAYBACK_START

\* C13 (as claimed): a segment started in a fresh play cycle after a
\* stopPlayback() is played through undisturbed: while its source is playing
\* (no timer firing, no error), it is the current source, isPlaying holds and
\* no PLAYBACK_END has been dispatched since its PLAYBACK_START.
LastIdx(t) ==
  LET S == {k \in DOMAIN events : events[k].type = t}
  IN IF S = {} THEN 0 ELSE CHOOSE k \in S : \A j \in S : j <= k

C13_FreshCycle ==
  /\ LastIdx(PLAYBACK_STOP) > 0
  /\ LastIdx(PLAYBACK_START) > LastIdx(PLAYBACK_STOP)
  /\ played # <<>>
  /\ src[Last(played)] = "playing"
  /\ timeoutWarnings = 0
  /\ Count(events, AUDIO_ERROR) = 0

C13_EnqueueAfterInterrupt ==
  C13_FreshCycle =>
    /\ isPlaying
    /\ currentSource = Last(played)
    /\ LastIdx(PLAYBACK_END) < LastIdx(PLAYBACK_START)

\* C14 (as claimed): a step in which a playback error is reported
\* (AUDIO_ERROR) recovers locally: the controller is not left with isPlaying
\* set and nothing playing; a segment that is playing is not disturbed by
\* the failure of another one; and when playback is over after the step,
\* nothing remains queued, audioState is INACTIVE and PLAYBACK_END was
\* dispatched.
C14_ErrorStep == Count(events', AUDIO_ERROR) > Count(events, AUDIO_ERROR)

C14_ErrorRecovered ==
  [][C14_ErrorStep =>
       /\ isPlaying' => (currentSource' # Null /\ src'[currentSource'] = "playing")
       /\ (isPlaying /\ currentSource # Null /\ src[currentSource] = "playing") =>
            /\ isPlaying' /\ isSpeaking'
            /\ currentSource' = currentSource
            /\ Count(events', PLAYBACK_END) = Count(events, PLAYBACK_END)
       /\ ~isPlaying' =>
            /\ audioQueue' = <<>>
            /\ audioState' = INACTIVE
            /\ Last(events').type = PLAYBACK_END]_vars

\* C15: in a call of handleAudioProcess, the websocket interrupt is sent
\* exactly when playback is stopped locally, and then the current source has
\* been stopped, its timer cleared, the queue emptied and isPlaying and
\* isSpeaking reset, all within that call.
C15_LocalStop == Count(events', PLAYBACK_STOP) > Count(events, PLAYBACK_STOP)
C15_RemoteInterrupt == wsInterrupts' = wsInterrupts + 1

C15_BothSides ==
  [][FrameStep =>
       /\ C15_LocalStop <=> C15_RemoteInterrupt
       /\ ~C15_RemoteInterrupt => wsInterrupts' = wsInterrupts
       /\ C15_RemoteInterrupt =>
            /\ currentSource # Null
            /\ src'[currentSource] = "stopped"
            /\ currentSource' = Null
            /\ ~timerArmed'
            /\ audioQueue' = <<>>
            /\ ~isPlaying' /\ ~isSpeaking'
            /\ Last(events') = Ev(PLAYBACK_STOP, TRUE, "-", "user_interrupt")]_vars

\* A barge-in has stopped segment 1 of a reply whose segment 2 was queued,
\* and has dropped that one.
C15_Witness ==
  /\ wsInterrupts = 1
  /\ src[1] = "stopped"
  /\ Len(enq) = 2
  /\ played = <<1>>
  /\ audioQueue = <<>>
  /\ ~isSpeaking
  /\ Last(events) = Ev(PLAYBACK_STOP, TRUE, "-", "user_interrupt")

\* C16: any two list_sessions requests issued by the save_session_result
\* handler are more than RefreshWindow (2000 ms) apart, however many
\* successful save results arrive.
C16_Throttled ==
  \A j, k \in DOMAIN listRequests :
    (j < k /\ listRequests[j].by = "save" /\ listRequests[k].by = "save") =>
      listRequests[k].at - listRequests[j].at > RefreshWindow

\* All the save results explored have arrived; two of them, 2001 ms apart, refreshed the
\* list.
C16_Witness ==
  /\ saveResults = MaxSaveResults
  /\ sessionError = Null
  /\ \E j, k \in DOMAIN listRequests :
       /\ j < k
       /\ listRequests[j].by = "save" /\ listRequests[k].by = "save"
       /\ listRequests[k].at - listRequests[j].at = RefreshWindow + 1
  /\ Cardinality({k \in DOMAIN listRequests : listRequests[k].by = "save"}) = 2

\* C17: at most one turn of the connection is in a non-terminal status, and
\* it is the current one; the orchestrator is Idle exactly when there is none.
NonTerminal == {"transcribing", "generating", "synthesizing", "streaming"}
ActiveTurns == {i \in TurnIds : status[i] \in NonTerminal}

C17_OneActiveTurn ==
  /\ Cardinality(ActiveTurns) <= 1
  /\ ActiveTurns = (IF orchState = Idle THEN {} ELSE {current})
  /\ \A c \in calls : ~c.cancelled => c.turn \in ActiveTurns

\* A second utterance is being transcribed while the turn before it, cut
\* short while streaming, still has its cancelled synthesis call in flight.
C17_Witness ==
  /\ arrived = 2
  /\ status[1] = "interrupted"
  /\ responseText[1]
  /\ status[2] = "transcribing"
  /\ [turn |-> 1, kind |-> "synthesize", cancelled |-> TRUE] \in calls
  /\ [turn |-> 2, kind |-> "transcribe", cancelled |-> FALSE] \in calls

\* C18: an InterruptSignal received while a turn is Generating ends that turn
\* in the same step: its status becomes interrupted, its generation call is
\* cancelled, a truncated turn (transcript, no response text) is appended to
\* the history and the orchestrator is Idle again; an InterruptSignal
\* received while Idle changes nothing.
C18_SignalStep == signals' = signals + 1

C18_InterruptWhileGenerating ==
  /\ [][(C18_SignalStep /\ orchState = Generating) =>
          /\ status'[current] = "interrupted"
          /\ history' = Append(history, [turn |-> current, status |-> "interrupted",
                                         transcript |-> TRUE, responseText |-> FALSE,
                                         truncated |-> TRUE])
          /\ \A c \in calls' : c.turn = current => c.cancelled
          /\ orchState' = Idle
          /\ current' = Null
          /\ outbox' = outbox]_vars
  /\ [][(C18_SignalStep /\ orchState = Idle) =>
          UNCHANGED <<orchState, current, status, transcript, responseText, calls,
                      segments, buffered, history, outbox, arrived>>]_vars

\* Turn 1 was interrupted while generating, and a second InterruptSignal found
\* the orchestrator Idle.
C18_Witness ==
  /\ signals = 2
  /\ arrived = 1
  /\ orchState = Idle
  /\ history = <<[turn |-> 1, status |-> "interrupted", transcript |-> TRUE,
                  responseText |-> FALSE, truncated |-> TRUE]>>
  /\ [turn |-> 1, kind |-> "generate", cancelled |-> TRUE] \in calls

\* C19: the step that receives an Utterance always takes it up (the new turn
\* is current and Transcribing, its transcription call in flight); if a turn
\* was in progress, that step first ends it as interrupted: its calls are
\* cancelled, unsent audio is discarded and the truncated turn is in the
\* history when the new turn starts.  No call that is not cancelled belongs
\* to a turn other than the current one.
C19_UtteranceStep == arrived' = arrived + 1

C19_ImplicitInterrupt ==
  /\ [][C19_UtteranceStep =>
          /\ current' = arrived'
          /\ orchState' = Transcribing
          /\ status'[arrived'] = "transcribing"
          /\ [turn |-> arrived', kind |-> "transcribe", cancelled |-> FALSE] \in calls'
          /\ orchState = Idle => history' = history
          /\ orchState # Idle =>
               /\ status'[current] = "interrupted"
               /\ history' = Append(history,
                                    [turn |-> current, status |-> "interrupted",
                                     transcript |-> transcript[current],
                                     responseText |-> responseText[current],
                                     truncated |-> TRUE])
               /\ \A c \in calls' : c.turn = current => c.cancelled
               /\ buffered' = <<>>]_vars
  /\ [](\A c \in calls : ~c.cancelled => c.turn = current)

\* Utterance 2 arrived while turn 1 was streaming; turn 1 is recorded
\* truncated and turn 2 has gone on to Generating.
C19_Witness ==
  /\ arrived = 2
  /\ signals = 0
  /\ history = <<[turn |-> 1, status |-> "interrupted", transcript |-> TRUE,
                  responseText |-> TRUE, truncated |-> TRUE]>>
  /\ orchState = Generating
  /\ current = 2
  /\ status[2] = "generating"

\* C20: a step in which a cancelled collaborator call returns, fails or
\* produces a segment sends nothing to the client, adds nothing to the
\* history or to the unsent audio and leaves the orchestrator state and every
\* turn's status, transcript and response text as they were; and no step
\* sends or buffers anything for a turn that was already interrupted.
C20_StaleStep ==
  \/ \E c \in calls : c.cancelled /\ c \notin calls'
  \/ \E i \in TurnIds : status[i] = "interrupted" /\ segments'[i] # segments[i]

C20_ResultDiscarded ==
  /\ [][C20_StaleStep =>
          UNCHANGED <<outbox, history, buffered, orchState, current, status,
                      transcript, responseText>>]_vars
  /\ [][(\A k \in (Len(outbox) + 1)..Len(outbox') :
             status[outbox'[k].turn] # "interrupted")
         /\ (\A j \in DOMAIN buffered' :
               status'[buffered'[j].turn] # "interrupted")]_vars

\* The generation call of turn 1, cancelled by the arrival of utterance 2,
\* has returned while turn 2 is being transcribed; nothing of it was applied.
C20_Witness ==
  /\ arrived = 2
  /\ status[1] = "interrupted"
  /\ transcript[1] /\ ~responseText[1]
  /\ \A c \in calls : c.turn # 1
  /\ orchState = Transcribing
  /\ current = 2
  /\ outbox = <<Env("transcription", 1, 0)>>
  /\ Len(history) = 1

\* C21: a step that marks a turn failed does so for the current turn, while
\* it is in a non-terminal status; it sends one error envelope for it,
\* retracts nothing already sent, records nothing in the history and leaves
\* the orchestrator Idle with no turn in progress.  The orchestrator is never
\* in a non-Idle state without an awaited call that is not cancelled, and an
\* utterance received after a failure is taken up like any other.
C21_FailStep(i) == status[i] # "failed" /\ status'[i] = "failed"

C21_FailureRecovered ==
  /\ [][\A i \in TurnIds : C21_FailStep(i) =>
          /\ i = current
          /\ status[i] \in {"transcribing", "generating", "synthesizing", "streaming"}
          /\ outbox' = Append(outbox, Env("error", i, 0))
          /\ history' = history
          /\ buffered' = <<>>
          /\ orchState' = Idle
          /\ current' = Null
          /\ \A c \in calls' : c.turn = i => c.cancelled]_vars
  /\ [](orchState # Idle =>
          \E c \in calls : c.turn = current /\ ~c.cancelled)
  /\ [](orchState = Idle <=> current = Null)
  /\ [][(arrived' = arrived + 1 /\ orchState = Idle) =>
          /\ orchState' = Transcribing
          /\ current' = arrived'
          /\ status'[arrived'] = "transcribing"]_vars

\* Turn 1 failed after its first segment had been sent; turn 2 has since
\* been transcribed and is Generating.
C21_Witness ==
  /\ status[1] = "failed"
  /\ \E k \in DOMAIN outbox : outbox[k] = Env("tts_chunk", 1, 1)
  /\ \E k \in DOMAIN outbox : outbox[k] = Env("error", 1, 0)
  /\ history = <<>>
  /\ orchState = Generating
  /\ current = 2


\* The types of the envelopes of a sequence, in order.
TypesOf(envs) == [k \in DOMAIN envs |-> envs[k].type]

\* C22: a normal turn whose synthesis yields two segments sends tts_start, two
\* tts_chunk and tts_end in that order, and on the client exactly one
\* PLAYBACK_START fires for the whole reply (no safety timer expiring).
C22_OneStartPerReply ==
  (status[1] = "complete" /\ segments[1] = 2 /\ timeoutWarnings = 0) =>
    /\ TypesOf(outbox) = <<"transcription", "llm_response", "tts_start",
                           "tts_chunk", "tts_chunk", "tts_end">>
    /\ Count(events, PLAYBACK_START) <= 1
    /\ (played # <<>> => Count(events, PLAYBACK_START) = 1)

\* C22, the server's half alone: the envelopes of the turn and their order.
C22_EnvelopeOrder ==
  (status[1] = "complete" /\ segments[1] = 2) =>
    TypesOf(outbox) = <<"transcription", "llm_response", "tts_start",
                        "tts_chunk", "tts_chunk", "tts_end">>


\* The n most recent of the turns 1..upto, in order.
Recent(upto, n) == [k \in 1..n |-> upto - n + k]

\* C23: the history is capped with FIFO eviction: an append at the cap drops
\* the oldest turn, and the generation collaborator never receives more than
\* HistoryCap turns, always the most recent ones in order.
C23_HistoryCapped ==
  /\ [](/\ Len(conversation) <= HistoryCap
        /\ conversation = Recent(appended, Min(appended, HistoryCap))
        /\ Len(context) <= HistoryCap
        /\ context = Recent(contextAt, Min(contextAt, HistoryCap)))
  /\ [][(appended' = appended + 1 /\ Len(conversation) = HistoryCap) =>
          conversation' = Append(Tail(conversation), appended')]_vars

\* The 51st turn was appended and the collaborator was then called with the
\* 50 turns 2..51.
C23_Witness ==
  /\ appended = HistoryCap + 1
  /\ Len(conversation) = HistoryCap /\ conversation[1] = 2
  /\ contextAt = HistoryCap + 1
  /\ Len(context) = HistoryCap /\ context[1] = 2 /\ context[HistoryCap] = HistoryCap + 1


\* Exactly one of the three protected flags is set.
C24_OneFlag ==
  Cardinality({f \in 1..3 : <<isGreeting, isProcessing, isVisionProcessing>>[f]}) = 1

\* The step is a call of stopRecording while recording.
C24_StopStep == audioState = RECORDING /\ scriptProcessor /\ ~scriptProcessor'

\* C24 (as claimed): the three protected flags gate the same behaviour: a step
\* taken while one of them is set sends the utterances, sends the interrupts
\* and accumulates the frames that it does when that flag is isProcessing,
\* whichever of the three it is.
C24_SameGate ==
  [][C24_OneFlag =>
       /\ wsInterrupts' = wsInterrupts
       /\ (FrameStep => (audioBuffer' = audioBuffer /\ sent' = sent))
       /\ (C24_StopStep =>
             /\ sent' = sendAudioChunk(audioBuffer, isVoiceDetected, TRUE, sent).sent
             /\ audioBuffer' = <<>>)]_vars


\* C25 (as claimed): the confirmation handlers call onClose only after all
\* four confirmations of the save have arrived and every one of them reports
\* success, for every save.
C25_ClosedOnlyAfterAll ==
  \A k \in DOMAIN closes :
    closes[k].got = expectedUpdateCount /\ closes[k].allOk

\* C25, the first save alone (counted from fresh counters).
C25_FirstSave ==
  \A k \in DOMAIN closes :
    closes[k].save = 1 => (closes[k].got = expectedUpdateCount /\ closes[k].allOk)


\* The buffered audio is shorter than minRecordingLength.
C26_Short ==
  Len(audioBuffer) * config.bufferSize * 1000 < minRecordingLength * config.sampleRate

\* C26: stopRecording() while audioState is RECORDING sends the buffered audio
\* as one final utterance (unless isProcessing is set, or the audio is shorter
\* than minRecordingLength with no voice active), leaves audioBuffer empty and
\* audioState INACTIVE and dispatches RECORDING_STOP; while audioState is not
\* RECORDING no call detaches the processor, sends outside a frame or
\* dispatches RECORDING_STOP.
C26_FinalFlush ==
  /\ [][C24_StopStep =>
         /\ sent' = IF \/ audioBuffer = <<>>
                       \/ isProcessing
                       \/ (~isVoiceDetected /\ C26_Short)
                    THEN sent ELSE Append(sent, audioBuffer)
         /\ audioBuffer' = <<>>
         /\ audioState' = INACTIVE
         /\ lastRecordingEvent' = RecEv(RECORDING_STOP, NoFrame, 0, FALSE)]_vars
  /\ [][audioState # RECORDING =>
         /\ (scriptProcessor => scriptProcessor')
         /\ (~FrameStep => (sent' = sent /\ Len(audioBuffer') <= Len(audioBuffer)))
         /\ (lastRecordingEvent'.type = RECORDING_STOP =>
               lastRecordingEvent' = lastRecordingEvent)]_vars

\* stopRecording() has sent the one utterance, made of the two frames that
\* were buffered, and the service is stopped.
C26_Witness ==
  /\ lastRecordingEvent.type = RECORDING_STOP
  /\ audioState = INACTIVE /\ ~scriptProcessor /\ audioBuffer = <<>>
  /\ lastFlush = 0
  /\ Len(sent) = 1 /\ Len(sent[1]) = 2


\* The step is a call of releaseHardware() with the microphone stream held.
C27_ReleaseStep == mediaStream /\ ~mediaStream'

\* C27 (as claimed): after releaseHardware() everything is released and reset:
\* audioState is INACTIVE, isPlaying, isSpeaking and isVoiceDetected are
\* false, audioBuffer and audioQueue are empty, no source is playing, no
\* safety timer is pending, and mediaStream, scriptProcessor and
\* mediaStreamSource are null.
C27_AllReleased ==
  [][C27_ReleaseStep =>
       /\ audioState' = INACTIVE
       /\ ~isPlaying' /\ ~isSpeaking' /\ ~isVoiceDetected'
       /\ audioBuffer' = <<>>
       /\ audioQueue' = <<>>
       /\ \A i \in Items : src'[i] # "playing"
       /\ ~timerArmed' /\ playbackTimeoutId' = Null
       /\ ~mediaStream' /\ ~scriptProcessor' /\ ~mediaStreamSource']_vars

\* C27, without the queue and the sources: the fields releaseHardware()
\* assigns itself.
C27_FieldsReset ==
  [][C27_ReleaseStep =>
       /\ audioState' = INACTIVE
       /\ ~isPlaying' /\ ~isSpeaking' /\ ~isVoiceDetected'
       /\ audioBuffer' = <<>>
       /\ ~timerArmed' /\ playbackTimeoutId' = Null
       /\ ~mediaStream' /\ ~scriptProcessor' /\ ~mediaStreamSource']_vars


\* C28: every call of handleAudioProcess dispatches exactly one RECORDING_DATA
\* event, carrying that frame and its energy, in every state; its isVoice is
\* false while a protected flag is set and is isVoiceDetected as the frame
\* left it otherwise; no other step dispatches one.
C28_OneDataPerFrame ==
  /\ [][FrameStep =>
         /\ dataEvents' = dataEvents + 1
         /\ lastRecordingEvent' =
              RecEv(RECORDING_DATA, FrameOf, lastEnergy',
                    IF Protected THEN FALSE ELSE isVoiceDetected')]_vars
  /\ [][~FrameStep => dataEvents' = dataEvents]_vars
  /\ [](dataEvents = frameNo)

\* A frame above the threshold was handled in a protected state while voice
\* was active: its event says isVoice false.
C28_Witness ==
  /\ frameNo >= 2 /\ dataEvents = frameNo
  /\ isVoiceDetected
  /\ lastRecordingEvent.type = RECORDING_DATA
  /\ lastRecordingEvent.buffer.n = frameNo
  /\ lastRecordingEvent.energy > voiceThreshold
  /\ ~lastRecordingEvent.isVoice


\* The sources that are playing.
Playing == {i \in Items : src[i] = "playing"}

\* C29 (as claimed): in every reachable state at most one audio source is
\* playing.
C29_OneSourcePlaying == Cardinality(Playing) <= 1

\* C30 (as claimed): whenever a source is playing isSpeaking is true and
\* currentSource is that source; isPlaying and isSpeaking become false only
\* when no source is playing.
C30_PlayingIsTracked ==
  /\ [](\A i \in Playing : isSpeaking /\ currentSource = i)
  /\ [][((isPlaying /\ ~isPlaying') \/ (isSpeaking /\ ~isSpeaking')) =>
          Playing' = {}]_vars


\* C31 (as claimed): a segment whose decoding was in flight when playback was
\* stopped (stopPlayback() with a source playing, or releaseHardware()) is
\* never played afterwards.
C31_NoResume == \A i \in inFlightAtStop : src[i] = "none"


\* The step handles a frame above the threshold while the assistant is
\* speaking and no protected flag is set.
C32_VoiceWhileSpeaking ==
  /\ FrameStep
  /\ lastEnergy' > voiceThreshold
  /\ isSpeaking
  /\ ~Protected

\* C32 (as claimed): a frame above voiceThreshold handled while the assistant
\* is speaking and no protected flag is set leaves playback stopped and an
\* interrupt sent, also when isVoiceDetected was already true.
C32_VoiceInterrupts ==
  [][C32_VoiceWhileSpeaking =>
       /\ ~isSpeaking' /\ ~isPlaying'
       /\ \A i \in Items : src[i] = "playing" => src'[i] = "stopped"
       /\ wsInterrupts' = wsInterrupts + 1]_vars


\* C33 (as claimed): once stopRecording() was called after a startRecording(),
\* capture is stopped: the script processor is disconnected, no further
\* frame is handled, the buffer was flushed and RECORDING_STOP dispatched,
\* even if playback started or ended between the two calls.
C33_StopStopsCapture ==
  /\ [](~captureRequested =>
          /\ ~scriptProcessor
          /\ audioBuffer = <<>>
          /\ (mediaStream => lastRecordingEvent.type = RECORDING_STOP))
  /\ [][~captureRequested => ~FrameStep]_vars

\* C34 (as claimed): at most one capture processor is attached at any time,
\* under any interleaving of startRecording, stopRecording and playback.
C34_OneProcessor == ~(scriptProcessor /\ orphaned)



\* C35: every sent utterance is a contiguous run of observed frames: between
\* its first and its last frame no observed frame is missing, so audio from
\* before a protected period is never joined with audio from after it.
C35_Contiguous ==
  \A k \in DOMAIN sent :
    \A j \in 1..(Len(sent[k]) - 1) : sent[k][j + 1].n = sent[k][j].n + 1


\* A step that interrupts playback: a playing source is stopped, or the
\* barge-in branch of handleAudioProcess runs.
C36_Interruption ==
  \/ \E i \in Items : src[i] = "playing" /\ src'[i] = "stopped"
  \/ wsInterrupts' > wsInterrupts

\* C36: each interruption of playback, by a direct stopPlayback() call or by
\* a barge-in in handleAudioProcess, dispatches exactly one PLAYBACK_STOP.
C36_OneStopEvent ==
  [][C36_Interruption =>
       Count(events', PLAYBACK_STOP) = Count(events, PLAYBACK_STOP) + 1]_vars


\* C37: stopPlayback() while currentSource is null is a no-op: it dispatches
\* no event and leaves audioState, audioQueue, isPlaying, isSpeaking and the
\* safety timer as they are.
C37_NoSourceNoOp ==
  currentSource = Null =>
    LET r == stopPlayback(PB)
    IN /\ r.events = events
       /\ r.audioState = audioState
       /\ r.audioQueue = audioQueue
       /\ r.isPlaying = isPlaying
       /\ r.isSpeaking = isSpeaking
       /\ r.playbackTimeoutId = playbackTimeoutId
       /\ r.timerArmed = timerArmed

\* stopPlayback() returns early after an earlier interruption: no current
\* source is tracked although a source the safety timer gave up on is still
\* playing, and nothing changes.
C37_Witness ==
  /\ currentSource = Null
  /\ stopPlayback(PB) = PB
  /\ Playing # {}
  /\ audioState = INTERRUPTED
  /\ events # <<>>


\* The list has been requested at or after the last successful save result.
C38_Fresh ==
  lastSavedAt # Null =>
    \E k \in DOMAIN listRequests : listRequests[k].at >= lastSavedAt

\* C38: after the last successful save_session_result the session list is
\* eventually refreshed: from some point on, a list_sessions request issued at
\* or after that result exists.
C38_EventuallyRefreshed == <>[]C38_Fresh


\* Save n comes after a save all of whose confirmations arrived, one of them
\* reporting a failure.
C39_AfterFailedSave(n) ==
  \E m \in SaveIds : m < n /\ got[m] = expectedUpdateCount /\ ~allOk[m]

\* C39: a failed save does not carry over: a later save whose confirmations
\* all report success keeps isSaving set until its fourth confirmation, and
\* the modal has been closed for it once the fourth has arrived.
C39_NoCarryOver ==
  \A n \in SaveIds :
    (saves = n /\ C39_AfterFailedSave(n) /\ allOk[n]) =>
      /\ got[n] < expectedUpdateCount => isSaving
      /\ got[n] = expectedUpdateCount =>
            \E k \in DOMAIN closes : closes[k].save = n

============================================================================
